---------------------------- MODULE Spec2Model ----------------------------
(***************************************************************************)
(* A model of the CIFAR-10 loading utility (class CIFAR10, utils_tmp.py):  *)
(* the image conversion, the one-hot label encoder, the assembly of the    *)
(* training and test sets from pickled batch files, load_class_names, and  *)
(* maybe_download_and_extract.                                             *)
(*                                                                         *)
(* Conventions.  A numpy float is an exact fraction [num, den] in lowest   *)
(* terms.  A 4-dimensional array is a record [shape, data], data being a   *)
(* function of 0-based index tuples.  A Python exception is the name of    *)
(* its class in the variable err; "none" means no exception.  The values   *)
(* a call hands back are the tuple ret (empty while nothing is returned).  *)
(* A Python str or bytes value is a sequence of one-character strings.     *)
(***************************************************************************)
EXTENDS Integers, Sequences, FiniteSets, TLC

VARIABLES
    pc,          \* where the modelled call stands
    arg,         \* the arguments of the call
    ret,         \* the tuple of values returned to the caller
    err,         \* the exception that left the call, or "none"
    images,      \* load_training_data: the pre-allocated image array
    cls,         \* load_training_data: the pre-allocated class-number array
    begin,       \* load_training_data: begin-index for the current batch
    i,           \* load_training_data: the loop variable
    reads,       \* the batch files read by the call so far (history)
    writes,      \* the [begin, end) index pairs written so far (history)
    fs,          \* the paths that exist in the file system
    downloads,   \* how often urlretrieve fetched the archive
    extractions  \* how often an archive was unpacked

vars == <<pc, arg, ret, err, images, cls, begin, i, reads, writes,
          fs, downloads, extractions>>

-----------------------------------------------------------------------------
(* Constants of CIFAR10.__init__ and load_training_data, and the bounds.   *)

\* Width and height of each image (32 in the source, scaled down).
img_size == 2

\* Number of channels in each image.
num_channels == 3

\* Number of classes.
num_classes == 10

\* Number of files for the training-set.
_num_files_train == 5

\* Number of images for each batch-file (10000 in the source, scaled down).
_images_per_file == 2

\* Total number of images in the training-set.
_num_images_train == _num_files_train * _images_per_file

\* The most images a raw buffer handed to _convert_images holds.
MaxImages == 2

\* The label vectors handed to _one_hot_encoded: their greatest length,
\* their greatest label, and how far below zero a label goes.
MaxLen == 4
MaxLabel == 3
MaxNeg == 1

-----------------------------------------------------------------------------
(* numpy floats and arrays.                                                *)

RECURSIVE GCD(_, _)
GCD(a, b) == IF b = 0 THEN a ELSE GCD(b, a % b)

\* The float num/den, den > 0, num >= 0.
Float(num, den) ==
    LET g == GCD(num, den) IN [num |-> num \div g, den |-> den \div g]

Zero == Float(0, 1)
One == Float(1, 1)

\* np.array(raw, dtype=float) / 255.0 on a flat buffer.
TrueDivide255(raw) == [j \in 1..Len(raw) |-> Float(raw[j], 255)]

\* The index tuples of an array of the given 4-dimensional shape.
Indices(shape) ==
    (0..(shape[1] - 1)) \X (0..(shape[2] - 1)) \X
    (0..(shape[3] - 1)) \X (0..(shape[4] - 1))

\* The position of an index tuple in the flat C-order buffer of the shape.
FlatIndex(idx, shape) ==
    ((idx[1] * shape[2] + idx[2]) * shape[3] + idx[3]) * shape[4] + idx[4]

\* ndarray.reshape([-1, d2, d3, d4]) of a flat sequence: ValueError when the
\* size is no multiple of d2*d3*d4.
Reshape(flat, d2, d3, d4) ==
    LET per == d2 * d3 * d4
        shape == <<Len(flat) \div per, d2, d3, d4>>
    IN IF Len(flat) % per # 0
       THEN [err |-> "ValueError", val |-> <<>>]
       ELSE [err |-> "none",
             val |-> [shape |-> shape,
                      data |-> [idx \in Indices(shape) |->
                                  flat[FlatIndex(idx, shape) + 1]]]]

\* A faulty transpose: the right shape, the axes after the first read in
\* the reverse order.
TransposeWrong(a, axes) ==
    LET shape == [j \in 1..4 |-> a.shape[axes[j] + 1]]
    IN [shape |-> shape,
        data |-> [idx \in Indices(shape) |->
                    a.data[<<idx[1], idx[4], idx[3], idx[2]>>]]]

\* ndarray.transpose(axes): axis j of the result is axis axes[j] of the
\* argument (axes 0-based, as in the source).
Transpose(a, axes) ==
    LET shape == [j \in 1..4 |-> a.shape[axes[j] + 1]]
        \* the axis of the result that axis d of the argument becomes
        inv == [d \in 1..4 |-> CHOOSE j \in 1..4 : axes[j] + 1 = d]
    IN [shape |-> shape,
        data |-> [idx \in Indices(shape) |->
                    a.data[<<idx[inv[1]], idx[inv[2]], idx[inv[3]],
                             idx[inv[4]]>>]]]

\* CIFAR10._convert_images
_convert_images(raw) ==
    LET raw_float == TrueDivide255(raw)
        reshaped == Reshape(raw_float, num_channels, img_size, img_size)
    IN IF reshaped.err # "none"
       THEN reshaped
       ELSE [err |-> "none",
             val |-> Transpose(reshaped.val, <<0, 2, 3, 1>>)]

-----------------------------------------------------------------------------
(* The raw buffers _convert_images is applied to: for each number of       *)
(* images, the buffers whose value for (image n, channel c, row r, column  *)
(* k) is a linear function of the four, reduced to 8 bits, and the same    *)
(* buffers with one byte too many.                                         *)

Weights == {0, 1} \X {0, 1} \X {0, 1} \X {0, 1} \X {0, 200, 255}

PixelValue(w, n, c, r, k) ==
    (w[5] + w[1] * 64 * n + w[2] * 16 * c + w[3] * 4 * r + w[4] * k) % 256

\* The flat buffer of count images in the on-disk order: image, channel,
\* row, column.
RawBuffer(w, count, extra) ==
    LET per == num_channels * img_size * img_size
    IN [p \in 1..(count * per + extra) |->
          LET q == p - 1
          IN PixelValue(w, q \div per,
                        (q % per) \div (img_size * img_size),
                        (q % (img_size * img_size)) \div img_size,
                        q % img_size)]

RawBuffers ==
    {RawBuffer(w, count, extra) :
        w \in Weights, count \in 0..MaxImages, extra \in 0..1}

\* The state of every variable no call has touched.
Untouched ==
    /\ ret = <<>>
    /\ err = "none"
    /\ images = <<>>
    /\ cls = <<>>
    /\ begin = 0
    /\ i = 0
    /\ reads = <<>>
    /\ writes = <<>>
    /\ fs = {}
    /\ downloads = 0
    /\ extractions = 0

InitConvert ==
    /\ pc = "start"
    /\ arg \in RawBuffers
    /\ Untouched

\* A call of _convert_images(raw).
ConvertImages ==
    /\ pc = "start"
    /\ LET r == _convert_images(arg)
       IN /\ err' = r.err
          /\ ret' = IF r.err = "none" THEN <<r.val>> ELSE <<>>
          /\ pc' = IF r.err = "none" THEN "returned" ELSE "raised"
    /\ UNCHANGED <<arg, images, cls, begin, i, reads, writes,
                   fs, downloads, extractions>>

NextConvert == ConvertImages

SpecConvert == InitConvert /\ [][NextConvert]_vars

\* C1: for a raw buffer of N*C*H*W 8-bit values, _convert_images returns an
\* array of shape [N, H, W, C] whose element [n, r, k, c] is the value at
\* flat position ((n*C + c)*H + r)*W + k divided by 255, and lies in [0, 1].
C1_ConvertLayout ==
    LET C == num_channels
        H == img_size
        W == img_size
        N == Len(arg) \div (C * H * W)
    IN (pc # "start" /\ Len(arg) = N * C * H * W) =>
          /\ pc = "returned"
          /\ ret[1].shape = <<N, H, W, C>>
          /\ \A n \in 0..(N - 1), c \in 0..(C - 1),
                r \in 0..(H - 1), k \in 0..(W - 1) :
                LET x == ret[1].data[<<n, r, k, c>>]
                    v == arg[((n * C + c) * H + r) * W + k + 1]
                IN /\ x.num * 255 = v * x.den
                   /\ 0 <= x.num
                   /\ x.num <= x.den

\* A buffer of two images was converted, its bytes not all alike.
C1_Witness ==
    /\ pc = "returned"
    /\ Len(arg) = 2 * num_channels * img_size * img_size
    /\ arg[1] # arg[2]
    /\ arg[1] # arg[img_size + 1]
    /\ arg[1] # arg[img_size * img_size + 1]

-----------------------------------------------------------------------------
(* The one-hot label encoder.  A 1-dimensional numpy array is a record     *)
(* [dtype, vals]; a matrix is the sequence of its rows.  The optional      *)
(* argument num_classes is <<>> for None and <<k>> for the number k.       *)

\* np.array(list) of a Python list of integers: the empty list gives an
\* array of dtype float.
NpArray(list) ==
    [dtype |-> IF list = <<>> THEN "float" ELSE "int", vals |-> list]

\* An array of integers.
IntArray(list) == [dtype |-> "int", vals |-> list]

SeqMax(s) == CHOOSE m \in {s[j] : j \in 1..Len(s)} :
                 \A j \in 1..Len(s) : s[j] <= m

\* np.eye(n, dtype=float)
Eye(n) == [r \in 1..n |-> [c \in 1..n |-> IF r = c THEN One ELSE Zero]]

\* A faulty inference: the greatest label, without the + 1.
InferNoPlusOne(vals) == SeqMax(vals)

\* num_classes = np.max(class_numbers) + 1
InferNumClasses(vals) == SeqMax(vals) + 1

\* a[index] for a matrix a with n rows and an index array: the rows picked,
\* a negative index counting from the end; IndexError when the index array
\* is not of integers or an index is outside -n..n-1.
TakeRows(a, n, index) ==
    IF \/ index.dtype # "int"
       \/ \E j \in 1..Len(index.vals) :
             index.vals[j] < 0 - n \/ index.vals[j] >= n
    THEN [err |-> "IndexError", val |-> <<>>]
    ELSE [err |-> "none",
          val |-> [j \in 1..Len(index.vals) |->
                     a[(IF index.vals[j] < 0 THEN index.vals[j] + n
                                             ELSE index.vals[j]) + 1]]]

\* CIFAR10._one_hot_encoded
_one_hot_encoded(class_numbers, n_classes) ==
    IF n_classes = <<>> /\ class_numbers.vals = <<>>
    THEN [err |-> "ValueError", val |-> <<>>]       \* np.max of no element
    ELSE LET n == IF n_classes = <<>>
                  THEN InferNumClasses(class_numbers.vals)
                  ELSE n_classes[1]
         IN IF n < 0
            THEN [err |-> "ValueError", val |-> <<>>]   \* np.eye(n), n < 0
            ELSE TakeRows(Eye(n), n, class_numbers)

\* The sequences over S of length at most n.
SeqsUpTo(S, n) == UNION {[1..m -> S] : m \in 0..n}

LabelVectors == SeqsUpTo((0 - MaxNeg)..MaxLabel, MaxLen)

NumClassesArgs == {<<>>} \cup {<<k>> : k \in 0..(MaxLabel + 1)}

InitEncode ==
    /\ pc = "start"
    /\ arg \in [class_numbers : {IntArray(l) : l \in LabelVectors},
                num_classes : NumClassesArgs]
    /\ Untouched

\* A call of _one_hot_encoded(class_numbers, num_classes).
OneHotEncoded ==
    /\ pc = "start"
    /\ LET r == _one_hot_encoded(arg.class_numbers, arg.num_classes)
       IN /\ err' = r.err
          /\ ret' = IF r.err = "none" THEN <<r.val>> ELSE <<>>
          /\ pc' = IF r.err = "none" THEN "returned" ELSE "raised"
    /\ UNCHANGED <<arg, images, cls, begin, i, reads, writes,
                   fs, downloads, extractions>>

NextEncode == OneHotEncoded

SpecEncode == InitEncode /\ [][NextEncode]_vars

\* The error kinds of the specification for the Python exceptions.
SpecErrorKind(e) ==
    CASE e = "IndexError" -> "RangeError"
      [] e = "ValueError" -> "ShapeError"
      [] e = "KeyError" -> "FormatError"
      [] e \in {"FileNotFoundError", "UnpicklingError"} -> "IOError"
      [] OTHER -> e

\* The labels of the call are class numbers: each in 0..K-1, K being
\* num_classes when supplied and the greatest label + 1 when omitted.
EncodeLabelsValid ==
    LET l == arg.class_numbers.vals
    IN IF arg.num_classes = <<>>
       THEN l # <<>> /\ \A j \in 1..Len(l) : l[j] >= 0
       ELSE \A j \in 1..Len(l) : l[j] >= 0 /\ l[j] < arg.num_classes[1]

\* C4: on a vector of N class numbers _one_hot_encoded returns an N-by-K
\* matrix whose row j holds 1.0 in column labels[j] and 0.0 in every other
\* column; K is num_classes when supplied, the greatest label + 1 when not.
C4_OneHotRows ==
    LET l == arg.class_numbers.vals
        K == IF arg.num_classes = <<>>
             THEN SeqMax(l) + 1 ELSE arg.num_classes[1]
    IN (pc # "start" /\ EncodeLabelsValid) =>
          /\ pc = "returned"
          /\ Len(ret[1]) = Len(l)
          /\ \A j \in 1..Len(l) :
                /\ Len(ret[1][j]) = K
                /\ \A c \in 0..(K - 1) :
                      ret[1][j][c + 1] = IF c = l[j] THEN One ELSE Zero

\* Labels [0, 3, 1] with num_classes omitted gave a 3-by-4 matrix.
C4_Witness ==
    /\ pc = "returned"
    /\ arg.class_numbers.vals = <<0, 3, 1>>
    /\ arg.num_classes = <<>>
    /\ Len(ret[1]) = 3
    /\ Len(ret[1][1]) = 4

\* C6: _one_hot_encoded fails with RangeError whenever a label is negative,
\* num_classes supplied or omitted, and returns no matrix.
C6_NegativeLabelRejected ==
    LET l == arg.class_numbers.vals
    IN (pc # "start" /\ \E j \in 1..Len(l) : l[j] < 0) =>
          /\ pc = "raised"
          /\ ret = <<>>
          /\ SpecErrorKind(err) = "RangeError"

-----------------------------------------------------------------------------
(* Name lookup in a method body, and the pickled files on disk.            *)

\* The names bound at module level (import os, pickle, numpy as np; the
\* class), and the builtins the methods use.
ModuleGlobals == {"os", "pickle", "np", "CIFAR10"}

Builtins == {"print", "open", "len", "range", "str", "float"}

\* The names bound by the import statements in the body of the class: they
\* are attributes of the class, and no scope of a method body.
ClassBodyImports == {"sys", "os", "urllib", "tarfile", "zipfile"}

\* Whether a bare name in a method body resolves: a method body sees its
\* locals, the module's globals and the builtins, never the class body.
Resolves(name, locals) == name \in locals \cup ModuleGlobals \cup Builtins

\* A pickled file is [exists, unpickles, dict]: whether open() finds it,
\* whether pickle.load reads it, and the dictionary (a record, its keys
\* being the byte-string keys of the pickle) it then gives.

\* CIFAR10._unpickle
_unpickle(file) ==
    IF ~file.exists THEN [err |-> "FileNotFoundError", val |-> <<>>]
    ELSE IF ~file.unpickles THEN [err |-> "UnpicklingError", val |-> <<>>]
    ELSE [err |-> "none", val |-> file.dict]

\* CIFAR10._load_data: (images, cls), or the exception.
_load_data(file) ==
    LET data == _unpickle(file)
    IN IF data.err # "none"
       THEN [err |-> data.err, images |-> <<>>, cls |-> <<>>]
       ELSE IF "data" \notin DOMAIN data.val \/ "labels" \notin DOMAIN data.val
       THEN [err |-> "KeyError", images |-> <<>>, cls |-> <<>>]
       ELSE LET c == NpArray(data.val.labels)
                im == _convert_images(data.val.data)
            IN IF im.err # "none"
               THEN [err |-> im.err, images |-> <<>>, cls |-> <<>>]
               ELSE [err |-> "none", images |-> im.val, cls |-> c]

Min(a, b) == IF a < b THEN a ELSE b

\* A faulty allocation: an array that is not zero.
NpOnes(shape) == [shape |-> shape, data |-> [idx \in Indices(shape) |-> One]]

\* np.zeros(shape, dtype=float) for a 4-dimensional shape.
NpZeros(shape) == [shape |-> shape, data |-> [idx \in Indices(shape) |-> Zero]]

\* a[b:e, :] = v for 4-dimensional arrays, 0 <= b <= e: the slice stops at
\* the end of a; v must have as many rows as the slice or one row, which is
\* then repeated (broadcast); ValueError otherwise.
SetSlice4(a, b, e, v) ==
    LET lo == Min(b, a.shape[1])
        hi == Min(e, a.shape[1])
        n == v.shape[1]
    IN IF n # hi - lo /\ n # 1
       THEN [err |-> "ValueError", val |-> a]
       ELSE [err |-> "none",
             val |-> [shape |-> a.shape,
                      data |-> [idx \in Indices(a.shape) |->
                         IF lo <= idx[1] /\ idx[1] < hi
                         THEN v.data[<<IF n = 1 THEN 0 ELSE idx[1] - lo,
                                       idx[2], idx[3], idx[4]>>]
                         ELSE a.data[idx]]]]

\* a[b:e] = v for 1-dimensional arrays, with the same rules; a keeps its
\* dtype.
SetSlice1(a, b, e, v) ==
    LET lo == Min(b, Len(a.vals))
        hi == Min(e, Len(a.vals))
        n == Len(v.vals)
    IN IF n # hi - lo /\ n # 1
       THEN [err |-> "ValueError", val |-> a]
       ELSE [err |-> "none",
             val |-> [dtype |-> a.dtype,
                      vals |-> [j \in 1..Len(a.vals) |->
                         IF lo < j /\ j <= hi
                         THEN v.vals[IF n = 1 THEN 1 ELSE j - lo]
                         ELSE a.vals[j]]]]

\* end = begin + num_images
EndIndex(b, num_images) == b + num_images

\* A faulty update: begin is not advanced.
NextBeginStays(b, end) == b

\* begin = end: the begin-index for the next batch is the current end-index.
NextBegin(b, end) == end

\* The locals [images, cls, begin] of load_training_data after images_batch
\* and cls_batch are stored at begin, and the exception that stops it.
StoreBatch(st, batch) ==
    LET num_images == batch.images.shape[1]
        end == EndIndex(st.begin, num_images)
        im == SetSlice4(st.images, st.begin, end, batch.images)
        cl == SetSlice1(st.cls, st.begin, end, batch.cls)
    IN IF im.err # "none"
       THEN [images |-> st.images, cls |-> st.cls, begin |-> st.begin,
             err |-> im.err, stored |-> FALSE]
       ELSE IF cl.err # "none"
       THEN [images |-> im.val, cls |-> st.cls, begin |-> st.begin,
             err |-> cl.err, stored |-> FALSE]
       ELSE [images |-> im.val, cls |-> cl.val,
             begin |-> NextBegin(st.begin, end), err |-> "none",
             stored |-> TRUE]

\* A faulty pass: a batch file that fails to load is skipped.
TrainStepSkipsFailure(st, file) ==
    LET batch == _load_data(file)
    IN IF batch.err # "none"
       THEN [images |-> st.images, cls |-> st.cls, begin |-> st.begin,
             err |-> "none", stored |-> FALSE]
       ELSE StoreBatch(st, batch)

\* One pass of the loop of load_training_data over a batch file, from the
\* locals st: the locals after it and the exception that leaves it.
TrainStep(st, file) ==
    LET batch == _load_data(file)
    IN IF batch.err # "none"
       THEN [images |-> st.images, cls |-> st.cls, begin |-> st.begin,
             err |-> batch.err, stored |-> FALSE]
       ELSE StoreBatch(st, batch)

-----------------------------------------------------------------------------
(* The files the loaders read.  Batch file f holds images whose bytes      *)
(* differ from image to image and from file to file; its image j = 1, 2,   *)
(* ... has the label (f + j - 2) mod num_classes.                          *)

Pickle(dict) == [exists |-> TRUE, unpickles |-> TRUE, dict |-> dict]

MissingFile == [exists |-> FALSE, unpickles |-> FALSE, dict |-> <<>>]

CorruptFile == [exists |-> TRUE, unpickles |-> FALSE, dict |-> <<>>]

BatchBuffer(f, count, extra) ==
    RawBuffer(<<1, 1, 1, 1, (40 * f) % 256>>, count, extra)

BatchLabels(f, count) == [j \in 1..count |-> (f + j - 2) % num_classes]

ConstLabels(count, label) == [j \in 1..count |-> label]

\* What batch file f may be: data_batch_<f> for f = 1.._num_files_train.
BatchFiles(f) ==
    LET P == _images_per_file
    IN {MissingFile, CorruptFile,
        Pickle([labels |-> BatchLabels(f, P)]),
        Pickle([data |-> BatchBuffer(f, P, 0)]),
        \* one byte too many
        Pickle([data |-> BatchBuffer(f, P, 1), labels |-> BatchLabels(f, P)]),
        \* one label too many
        Pickle([data |-> BatchBuffer(f, P, 0),
                labels |-> BatchLabels(f, P + 1)]),
        \* labels outside 0..num_classes-1
        Pickle([data |-> BatchBuffer(f, P, 0),
                labels |-> ConstLabels(P, num_classes)]),
        Pickle([data |-> BatchBuffer(f, P, 0),
                labels |-> ConstLabels(P, 0 - 1)])}
       \cup
       \* well-formed files: one image short, full, one image over
       {Pickle([data |-> BatchBuffer(f, count, 0),
                labels |-> BatchLabels(f, count)]) :
           count \in {P - 1, P, P + 1}}

\* What test_batch may be: the same, or a well-formed file of no image.
TestFiles ==
    BatchFiles(_num_files_train + 1)
       \cup {Pickle([data |-> <<>>, labels |-> <<>>])}

\* bytes.decode('utf-8') of a sequence of bytes, as the sequence of code
\* points: one- and two-byte sequences; UnicodeDecodeError for a byte that
\* starts neither (longer sequences are not among the inputs).
RECURSIVE Utf8Decode(_)
Utf8Decode(b) ==
    IF b = <<>> THEN [err |-> "none", val |-> <<>>]
    ELSE IF b[1] < 128
    THEN LET rest == Utf8Decode(Tail(b))
         IN [err |-> rest.err, val |-> <<b[1]>> \o rest.val]
    ELSE IF b[1] >= 194 /\ b[1] <= 223 /\ Len(b) >= 2
            /\ b[2] >= 128 /\ b[2] <= 191
    THEN LET rest == Utf8Decode(Tail(Tail(b)))
         IN [err |-> rest.err,
             val |-> <<(b[1] - 192) * 64 + (b[2] - 128)>> \o rest.val]
    ELSE [err |-> "UnicodeDecodeError", val |-> <<>>]

\* names = [x.decode('utf-8') for x in raw]
DecodeAll(raw) ==
    IF \E j \in 1..Len(raw) : Utf8Decode(raw[j]).err # "none"
    THEN [err |-> "UnicodeDecodeError", val |-> <<>>]
    ELSE [err |-> "none", val |-> [j \in 1..Len(raw) |-> Utf8Decode(raw[j]).val]]

\* CIFAR10.load_class_names: the bare name _unpickle is looked up first.
load_class_names(meta) ==
    IF ~Resolves("_unpickle", {"self"})
    THEN [err |-> "NameError", val |-> <<>>]
    ELSE LET data == _unpickle(meta)
         IN IF data.err # "none" THEN data
            ELSE IF "label_names" \notin DOMAIN data.val
            THEN [err |-> "KeyError", val |-> <<>>]
            ELSE DecodeAll(data.val.label_names)

\* The class names stored in batches.meta: byte strings.
StoredNames == {<<99, 97, 116>>, <<100, 111, 103>>, <<195, 169>>, <<255>>}

MetaFiles ==
    {MissingFile, CorruptFile, Pickle([num_vis |-> 3072])}
    \cup {Pickle([label_names |-> l]) : l \in SeqsUpTo(StoredNames, 2)}

-----------------------------------------------------------------------------
(* The loaders.  load_training_data takes one step to allocate, one step   *)
(* for each pass of its loop and one step to encode and return; i counts   *)
(* the passes completed.                                                   *)

InitLoad ==
    /\ pc = "idle"
    /\ arg = <<>>
    /\ Untouched

\* load_training_data, up to its loop.
LoadTrainingData ==
    /\ pc = "idle"
    /\ pc' = "train_loop"
    /\ arg' = <<"load_training_data">>
    /\ images' = NpZeros(<<_num_images_train, img_size, img_size,
                           num_channels>>)
    /\ cls' = IntArray([j \in 1.._num_images_train |-> 0])
    /\ begin' = 0
    /\ i' = 0
    /\ UNCHANGED <<ret, err, reads, writes, fs, downloads, extractions>>

\* One pass of the loop, over data_batch_<i+1>.
TrainLoop ==
    /\ pc = "train_loop"
    /\ i < _num_files_train
    /\ \E file \in BatchFiles(i + 1) :
          \E st \in {TrainStep([images |-> images, cls |-> cls,
                                begin |-> begin], file)} :
             /\ images' = st.images
             /\ cls' = st.cls
             /\ begin' = st.begin
             /\ err' = st.err
             /\ pc' = IF st.err = "none" THEN "train_loop" ELSE "raised"
             /\ i' = IF st.err = "none" THEN i + 1 ELSE i
             /\ reads' = Append(reads, file)
             /\ writes' = IF st.err = "none" /\ st.stored
                          THEN Append(writes, <<begin, st.begin>>)
                          ELSE writes
    /\ UNCHANGED <<arg, ret, fs, downloads, extractions>>

\* The return statement of load_training_data.
TrainReturn ==
    /\ pc = "train_loop"
    /\ i = _num_files_train
    /\ LET oh == _one_hot_encoded(cls, <<num_classes>>)
       IN /\ err' = oh.err
          /\ ret' = IF oh.err = "none" THEN <<images, oh.val>> ELSE <<>>
          /\ pc' = IF oh.err = "none" THEN "returned" ELSE "raised"
    /\ UNCHANGED <<arg, images, cls, begin, i, reads, writes,
                   fs, downloads, extractions>>

\* CIFAR10.load_test_data: (images, one_hot), or the exception.
load_test_data(file) ==
    LET batch == _load_data(file)
        oh == _one_hot_encoded(batch.cls, <<num_classes>>)
    IN IF batch.err # "none" THEN [err |-> batch.err, val |-> <<>>]
       ELSE IF oh.err # "none" THEN [err |-> oh.err, val |-> <<>>]
       ELSE [err |-> "none", val |-> <<batch.images, oh.val>>]

\* A call of load_test_data().
LoadTestData ==
    /\ pc = "idle"
    /\ arg' = <<"load_test_data">>
    /\ \E file \in TestFiles :
          LET r == load_test_data(file)
          IN /\ err' = r.err
             /\ ret' = r.val
             /\ pc' = IF r.err = "none" THEN "returned" ELSE "raised"
             /\ reads' = <<file>>
    /\ UNCHANGED <<images, cls, begin, i, writes, fs, downloads, extractions>>

\* A call of load_class_names().
LoadClassNames ==
    /\ pc = "idle"
    /\ arg' = <<"load_class_names">>
    /\ \E meta \in MetaFiles :
          LET r == load_class_names(meta)
          IN /\ err' = r.err
             /\ ret' = IF r.err = "none" THEN <<r.val>> ELSE <<>>
             /\ pc' = IF r.err = "none" THEN "returned" ELSE "raised"
             /\ reads' = <<meta>>
    /\ UNCHANGED <<images, cls, begin, i, writes, fs, downloads, extractions>>

NextLoad ==
    \/ LoadTrainingData
    \/ TrainLoop
    \/ TrainReturn
    \/ LoadTestData
    \/ LoadClassNames

SpecLoad == InitLoad /\ [][NextLoad]_vars

\* The number of images a batch file read without failure holds.
ImagesIn(file) ==
    Len(file.dict.data) \div (num_channels * img_size * img_size)

\* The images of the training batch files read so far, added up.
RECURSIVE ImagesRead(_)
ImagesRead(n) == IF n = 0 THEN 0 ELSE ImagesRead(n - 1) + ImagesIn(reads[n])

\* Every label of the batch files read is a class number.
LabelsInRange ==
    \A b \in 1..Len(reads) : \A j \in 1..Len(reads[b].dict.labels) :
        /\ reads[b].dict.labels[j] >= 0
        /\ reads[b].dict.labels[j] < num_classes

\* C2: load_training_data over batch files of _images_per_file images each
\* returns _num_files_train * _images_per_file rows, rows
\* [b*P, (b+1)*P) holding the converted images of batch file b+1 in order;
\* the batches are written to contiguous index ranges, each beginning where
\* the one before ended.
C2_BatchesInPlace ==
    LET P == _images_per_file
    IN /\ \A b \in 1..Len(writes) :
             /\ writes[b][1] = IF b = 1 THEN 0 ELSE writes[b - 1][2]
             /\ writes[b][1] <= writes[b][2]
       /\ (/\ arg = <<"load_training_data">>
           /\ pc = "returned"
           /\ \A b \in 1..Len(reads) : ImagesIn(reads[b]) = P) =>
             /\ ret[1].shape[1] = _num_files_train * P
             /\ \A b \in 0..(_num_files_train - 1) :
                   /\ writes[b + 1] = <<b * P, (b + 1) * P>>
                   /\ \A j \in 0..(P - 1), r \in 0..(img_size - 1),
                         k \in 0..(img_size - 1), c \in 0..(num_channels - 1) :
                         ret[1].data[<<b * P + j, r, k, c>>] =
                            _convert_images(reads[b + 1].dict.data)
                               .val.data[<<j, r, k, c>>]

\* Five full batches were assembled and returned.
C2_Witness ==
    /\ arg = <<"load_training_data">>
    /\ pc = "returned"
    /\ \A b \in 1..Len(reads) : ImagesIn(reads[b]) = _images_per_file
    /\ ret[1].data[<<0, 0, 0, 0>>] # ret[1].data[<<_images_per_file, 0, 0, 0>>]

\* C3: a Dataset returned by load_training_data or load_test_data holds
\* images, labels and one-hot labels of equal first dimension, label j being
\* the label of image j, and every one-hot row holding exactly one 1.0.
C3_DatasetHasLabels ==
    (pc = "returned" /\ arg \in {<<"load_training_data">>, <<"load_test_data">>})
       => /\ Len(ret) = 3
          /\ ret[1].shape[1] = Len(ret[2].vals)
          /\ ret[1].shape[1] = Len(ret[3])
          /\ \A j \in 1..Len(ret[3]) :
                /\ Cardinality({c \in 1..Len(ret[3][j]) : ret[3][j][c] = One}) = 1
                /\ ret[3][j][ret[2].vals[j] + 1] = One

\* C5: when deserialization or conversion of a batch file fails, the loader
\* raises that very exception and returns nothing, whichever batch fails; a
\* dataset is returned only when no batch file failed.
C5_FailureAborts ==
    (arg \in {<<"load_training_data">>, <<"load_test_data">>}) =>
       /\ (pc = "raised" => ret = <<>>)
       /\ \A b \in 1..Len(reads) :
             _load_data(reads[b]).err # "none" =>
                /\ b = Len(reads)
                /\ pc = "raised"
                /\ ret = <<>>
                /\ err = _load_data(reads[b]).err

\* The third batch file of load_training_data lacked a field, after two
\* batches had been stored.
C5_Witness ==
    /\ arg = <<"load_training_data">>
    /\ pc = "raised"
    /\ Len(reads) = 3
    /\ begin > 0
    /\ err = "KeyError"
    /\ _load_data(reads[3]).err = "KeyError"

\* The names batches.meta stores, when it is a readable pickle of them.
MetaIsValid ==
    /\ Len(reads) = 1
    /\ reads[1].exists
    /\ reads[1].unpickles
    /\ "label_names" \in DOMAIN reads[1].dict
    /\ \A j \in 1..Len(reads[1].dict.label_names) :
          Utf8Decode(reads[1].dict.label_names[j]).err = "none"

\* C9: load_class_names, with the metadata file present, returns the stored
\* class names decoded to text, as many and in the same order.
C9_ClassNamesReturned ==
    (arg = <<"load_class_names">> /\ MetaIsValid) =>
       /\ pc = "returned"
       /\ Len(ret[1]) = Len(reads[1].dict.label_names)
       /\ \A j \in 1..Len(ret[1]) :
             ret[1][j] = Utf8Decode(reads[1].dict.label_names[j]).val

\* C10: when the five batch files hold fewer than _num_images_train images,
\* load_training_data still returns _num_images_train rows; begin ends as the
\* number of images read, and every row from begin on is all zero and
\* one-hot encoded as class 0.
C10_ShortfallIsClassZero ==
    (/\ arg = <<"load_training_data">>
     /\ pc # "train_loop"
     /\ i = _num_files_train
     /\ LabelsInRange
     /\ ImagesRead(Len(reads)) < _num_images_train) =>
       /\ pc = "returned"
       /\ ret[1].shape[1] = _num_images_train
       /\ Len(ret[2]) = _num_images_train
       /\ begin = ImagesRead(Len(reads))
       /\ \A row \in begin..(_num_images_train - 1) :
             /\ \A r \in 0..(img_size - 1), k \in 0..(img_size - 1),
                   c \in 0..(num_channels - 1) :
                   ret[1].data[<<row, r, k, c>>] = Zero
             /\ ret[2][row + 1] = Eye(num_classes)[1]

\* A training set was returned with some rows loaded and some left over.
C10_Witness ==
    /\ arg = <<"load_training_data">>
    /\ pc = "returned"
    /\ i = _num_files_train
    /\ begin > 0
    /\ begin < _num_images_train
    /\ \E row \in 0..(begin - 1) : ret[2][row + 1] = Eye(num_classes)[1]

-----------------------------------------------------------------------------
(* maybe_download_and_extract.  Strings are sequences of characters; fs is *)
(* the set of the paths that exist, each without a trailing "/".           *)

\* The most downloads a behaviour makes.
MaxDownloads == 2

\* url.split('/')[-1]: what follows the last "/".
RECURSIVE LastSegment(_)
LastSegment(url) ==
    IF \A j \in 1..Len(url) : url[j] # "/" THEN url
    ELSE LastSegment(Tail(url))

\* os.path.join(a, b) for a name b that holds no "/".
PathJoin(a, b) ==
    IF a = <<>> \/ a[Len(a)] = "/" THEN a \o b ELSE a \o <<"/">> \o b

\* str.endswith(suffix)
EndsWith(str, suffix) ==
    /\ Len(str) >= Len(suffix)
    /\ SubSeq(str, Len(str) - Len(suffix) + 1, Len(str)) = suffix

\* A path without its trailing "/" characters.
RECURSIVE NormPath(_)
NormPath(path) ==
    IF path # <<>> /\ path[Len(path)] = "/"
    THEN NormPath(SubSeq(path, 1, Len(path) - 1))
    ELSE path

\* A faulty test: no path is found.
ExistsNever(files, path) == FALSE

\* os.path.exists(path)
Exists(files, path) == NormPath(path) \in files

\* The folder the CIFAR-10 archive unpacks to.
base_folder == <<"c", "i", "f", "a", "r">>

\* os.makedirs(name): FileExistsError when the directory exists.
Makedirs(files, name) ==
    IF NormPath(name) \in files
    THEN [err |-> "FileExistsError", fs |-> files]
    ELSE [err |-> "none", fs |-> files \cup {NormPath(name)}]

\* The local names of maybe_download_and_extract.
FetchLocals == {"self", "url", "download_dir", "filename", "file_path"}

\* CIFAR10.maybe_download_and_extract(url, download_dir) in the file system
\* files, net telling whether the network would deliver the archive: the
\* file system after it, the downloads and extractions it made and the
\* exception it ends with.
maybe_download_and_extract(url, download_dir, files, net) ==
    LET filename == LastSegment(url)
        file_path == PathJoin(download_dir, filename)
        dir == IF ~Exists(files, download_dir)
               THEN Makedirs(files, download_dir)
               ELSE [err |-> "none", fs |-> files]
        fetched == dir.fs \cup {NormPath(file_path)}
        unpacked == fetched \cup {NormPath(PathJoin(download_dir, base_folder))}
        zip == EndsWith(file_path, <<".", "z", "i", "p">>)
        tar == \/ EndsWith(file_path, <<".", "t", "a", "r", ".", "g", "z">>)
               \/ EndsWith(file_path, <<".", "t", "g", "z">>)
        out(f, d, x, e) == [fs |-> f, downloads |-> d, extractions |-> x,
                            err |-> e]
    IN IF Exists(files, file_path) THEN out(files, 0, 0, "none")
       ELSE IF dir.err # "none" THEN out(dir.fs, 0, 0, dir.err)
       ELSE IF ~Resolves("urllib", FetchLocals)
       THEN out(dir.fs, 0, 0, "NameError")
       ELSE IF ~net THEN out(dir.fs, 0, 0, "URLError")
       ELSE IF zip
       THEN IF Resolves("zipfile", FetchLocals)
            THEN out(unpacked, 1, 1, "none")
            ELSE out(fetched, 1, 0, "NameError")
       ELSE IF tar
       THEN IF Resolves("tarfile", FetchLocals)
            THEN out(unpacked, 1, 1, "none")
            ELSE out(fetched, 1, 0, "NameError")
       ELSE out(fetched, 1, 0, "none")

\* The URLs and download directories of the calls.
Urls ==
    {<<"u", "/", "a", ".", "t", "a", "r", ".", "g", "z">>,
     <<"u", "/", "a", ".", "t", "g", "z">>,
     <<"u", "/", "a", ".", "z", "i", "p">>,
     <<"u", "/", "a", ".", "t", "x", "t">>,
     <<"u", "/">>}

Dirs == {<<"d">>, <<"e", "/">>}

\* The file systems the calls may start in: any of the destination files
\* may be there, each in a directory that is there.
FileSystems ==
    LET dirs == {NormPath(d) : d \in Dirs}
        files == {NormPath(PathJoin(d, LastSegment(u))) : d \in Dirs, u \in Urls}
                    \ dirs
    IN {f \in SUBSET (dirs \cup files) :
          \A d \in Dirs, u \in Urls :
             NormPath(PathJoin(d, LastSegment(u))) \in f => NormPath(d) \in f}

InitFetch ==
    /\ pc = "idle"
    /\ arg = <<>>
    /\ ret = <<>>
    /\ err = "none"
    /\ images = <<>>
    /\ cls = <<>>
    /\ begin = 0
    /\ i = 0
    /\ reads = <<>>
    /\ writes = <<>>
    /\ fs \in FileSystems
    /\ downloads = 0
    /\ extractions = 0

\* A call of maybe_download_and_extract(url, download_dir).
MaybeDownloadAndExtract ==
    /\ downloads < MaxDownloads
    /\ \E url \in Urls, download_dir \in Dirs, net \in BOOLEAN :
          LET r == maybe_download_and_extract(url, download_dir, fs, net)
          IN /\ arg' = <<url, download_dir>>
             /\ fs' = r.fs
             /\ downloads' = downloads + r.downloads
             /\ extractions' = extractions + r.extractions
             /\ err' = r.err
             /\ pc' = IF r.err = "none" THEN "returned" ELSE "raised"
    /\ UNCHANGED <<ret, images, cls, begin, i, reads, writes>>

NextFetch == MaybeDownloadAndExtract

SpecFetch == InitFetch /\ [][NextFetch]_vars

\* The destination file of a call: download_dir joined with the last
\* segment of the URL.
Destination(call) == NormPath(PathJoin(call[2], LastSegment(call[1])))

\* C7: when the destination file exists, a call of
\* maybe_download_and_extract downloads nothing, extracts nothing, leaves
\* the directory as it is and returns, however often it is repeated.
C7_ExistingArchiveUntouched ==
    [][Destination(arg') \in fs =>
          /\ fs' = fs
          /\ downloads' = downloads
          /\ extractions' = extractions
          /\ pc' = "returned"]_vars

\* A call found its destination file and returned.
C7_Witness ==
    /\ pc = "returned"
    /\ arg # <<>>
    /\ Destination(arg) \in fs
    /\ Len(LastSegment(arg[1])) > 0

\* C8: when the destination file is absent, a call creates the download
\* directory if missing, downloads the archive once, then extracts it when
\* its name ends in .zip, .tar.gz or .tgz, and returns normally.
C8_AbsentArchiveFetched ==
    [][Destination(arg') \notin fs =>
          /\ pc' = "returned"
          /\ NormPath(arg'[2]) \in fs'
          /\ Destination(arg') \in fs'
          /\ downloads' = downloads + 1
          /\ (\/ EndsWith(LastSegment(arg'[1]), <<".", "z", "i", "p">>)
              \/ EndsWith(LastSegment(arg'[1]), <<".", "t", "g", "z">>)
              \/ EndsWith(LastSegment(arg'[1]),
                          <<".", "t", "a", "r", ".", "g", "z">>))
                => extractions' = extractions + 1]_vars

=============================================================================
